---- MODULE Spec2Model ----
(***************************************************************************)
(* zalloc (src/main.c): three allocation strategies behind one vtable.     *)
(*   - FixedBufferAllocator: bump pointer inside a caller-owned buffer     *)
(*   - ArenaAllocator:       bump pointer inside a chain of mmap'ed pages  *)
(*   - GeneralPurposeAllocator: power-of-two buckets, one page chain per   *)
(*     bucket, page reclamation by scanning for the 0xAA fill pattern      *)
(*                                                                         *)
(* Addresses are plain integers.  The address space offers NumSlots page   *)
(* frames, frame s covering [s*PAGE, (s+1)*PAGE); mmap may hand out any    *)
(* frame that is not mapped, munmap gives a frame back.  Memory contents   *)
(* are kept as the set of addresses whose byte differs from 0xAA, which is *)
(* all the code ever tests.  sizeof values are those of the LP64 build.    *)
(* A store through a pointer into an unmapped page, or a load through a    *)
(* NULL bucket, ends the process with a segmentation fault ("crashed").    *)
(* Each behaviour exercises one of the three allocators.                   *)
(* All sizes and addresses of the model stay far below 2^31, so size_t     *)
(* arithmetic never wraps here.                                            *)
(***************************************************************************)
EXTENDS Integers, FiniteSets, Sequences, TLC

VARIABLES
  strategy,  \* which allocator this run exercises: "fba", "arena" or "gpa"
  status,    \* "running", "fatal" (exit(1)), "crashed" (SIGSEGV), "destroyed"
  self,      \* the Allocator* handed to every call
  fba,       \* FixedBufferAllocator fields: size, offset
  hdr,       \* page address -> header at the start of that mapped page
  buckets,   \* GeneralPurposeAllocator.buckets[12]
  mem,       \* addresses of mapped bytes that differ from 0xAA
  live,      \* blocks the caller holds: returned by alloc and not yet freed
  last,      \* the last call: its arguments and what it returned
  nalloc,    \* number of alloc calls made so far
  recent,    \* page or buffer -> the block carved from it most recently
  older      \* blocks followed by a later block of the same page or buffer

vars == <<strategy, status, self, fba, hdr, buckets, mem, live, last, nalloc,
          recent, older>>

----------------------------------------------------------------------------
(* Bounds of the model *)

NumSlots == 3
MaxAllocs == 3
MaxRequest == 4100
MaxFill == 9

(* Program constants *)

NULL == 0
PAGE == 4096
NBUCKETS == 12
BUF_SIZE == 1000
SIZEOF_FBA == 24
SIZEOF_ARENA == 24
SIZEOF_GPABUCKET == 24

Slots == 1..NumSlots
PageAddrs == {s * PAGE : s \in Slots}

(* (size + 7) & ~7 *)
RoundUp8(size) == (size + 7) - ((size + 7) % 8)

(* Inputs the caller may pass *)
FbaSizes == {0, 11, 20, 976, 977}
FbaNewSizes == {5, 976, 977}

ArenaSizes == {0, 3, 3520, 4040, 4090, 4097}
ArenaNewSizes == {5, 3520, 3521}
GpaSizes == {0, 20, 2048, 2049}
GpaNewSizes == {1, 30, 33}

(* MemoryBlock, with the page (or buffer) it was carved from *)
NoBlock == [ptr |-> NULL, size |-> 0, page |-> NULL, gen |-> 0]

\* Bookkeeping of the order of allocations.  A page frame can be mapped more
\* than once; gen tells the mappings of one frame apart, so that a block is
\* known by where it starts, in which page, in which mapping of it.
GenOf(page, new) ==
  LET g == IF page \in DOMAIN recent THEN recent[page].gen ELSE 0
  IN IF new THEN g + 1 ELSE g

Key(blk) == [ptr |-> blk.ptr, page |-> blk.page, gen |-> blk.gen]

\* blk was carved from its page, which is new (just mapped) or was there before
Carve(blk, new) ==
  /\ recent' = [p \in DOMAIN recent \cup {blk.page} |->
                  IF p = blk.page THEN Key(blk) ELSE recent[p]]
  /\ older' = IF ~new /\ blk.page \in DOMAIN recent
              THEN older \cup {recent[blk.page]}
              ELSE older

(* What the caller saw of a call: op(arg, n) ended with outcome, returned ret *)
(* or blk, and mapped or unmapped the pages pg                               *)
Call(op, n, arg, outcome, ret, blk, pg) ==
  [op |-> op, n |-> n, arg |-> arg, outcome |-> outcome, ret |-> ret,
   blk |-> blk, pg |-> pg]

NoFba == [size |-> 0, offset |-> NULL]
NoBuckets == [i \in 0..(NBUCKETS - 1) |-> NULL]
NoHdr == [p \in {} |-> NULL]

\* memset(lo, 0xAA, len) on the contents m
Poison(m, lo, len) == {a \in m : ~(lo <= a /\ a < lo + len)}

----------------------------------------------------------------------------
(* Fixed-buffer allocator *)

create_fixed_buffer_allocator(buffer, size) ==
  /\ strategy = "fba"
  /\ status = "running"
  /\ self = buffer
  /\ fba = [size |-> size, offset |-> buffer + SIZEOF_FBA]
  /\ hdr = NoHdr
  /\ buckets = NoBuckets

\* the bounds test taken one byte too strict: an exact fit counts as oom
fixed_buffer_oom_strict(offset, size) == offset + size >= self + fba.size

\* the bound taken behind the header: the region is thought sizeof(fba) longer
fixed_buffer_oom_lax(offset, size) ==
  offset + size > self + SIZEOF_FBA + fba.size

\* offset + size > (char *)fba + fba->size
fixed_buffer_oom(offset, size) == offset + size > self + fba.size

fixed_buffer_alloc(size) ==
  /\ strategy = "fba" /\ status = "running" /\ nalloc < MaxAllocs
  /\ nalloc' = nalloc + 1
  /\ LET sz == RoundUp8(size)
         blk == [ptr |-> fba.offset, size |-> sz, page |-> self,
                 gen |-> GenOf(self, FALSE)]
     IN IF fixed_buffer_oom(fba.offset, sz)
        THEN /\ status' = "fatal"
             /\ last' = Call("alloc", size, NoBlock, "fatal", FALSE, NoBlock, {})
             /\ UNCHANGED <<fba, live, recent, older>>
        ELSE /\ fba' = [fba EXCEPT !.offset = fba.offset + sz]
             /\ IF sz > 0
                THEN live' = live \cup {blk} /\ Carve(blk, FALSE)
                ELSE UNCHANGED <<live, recent, older>>
             /\ last' = Call("alloc", size, NoBlock, "ok", TRUE, blk, {})
             /\ UNCHANGED status
  /\ UNCHANGED <<strategy, self, hdr, buckets, mem>>

fixed_buffer_free(memory) ==
  /\ strategy = "fba" /\ status = "running"
  /\ memory \in live
  /\ live' = live \ {memory}
  /\ last' = Call("free", 0, memory, "ok", FALSE, NoBlock, {})
  /\ UNCHANGED <<strategy, status, self, fba, hdr, buckets, mem, nalloc, recent, older>>

fixed_buffer_resize(memory, new_size) ==
  /\ strategy = "fba" /\ status = "running"
  /\ memory \in live
  /\ LET ns == RoundUp8(new_size)
         resized == [memory EXCEPT !.size = ns]
     IN IF memory.ptr + memory.size # fba.offset
        THEN /\ last' = Call("resize", new_size, memory, "ok", FALSE, memory, {})
             /\ UNCHANGED <<fba, live>>
        ELSE IF fixed_buffer_oom(fba.offset - memory.size, ns)
        THEN /\ last' = Call("resize", new_size, memory, "ok", FALSE, memory, {})
             /\ UNCHANGED <<fba, live>>
        ELSE /\ fba' = [fba EXCEPT !.offset = fba.offset - memory.size + ns]
             /\ live' = (live \ {memory}) \cup {resized}
             /\ last' = Call("resize", new_size, memory, "ok", TRUE, resized, {})
  /\ UNCHANGED <<strategy, status, self, hdr, buckets, mem, nalloc, recent, older>>

----------------------------------------------------------------------------
(* Page provider *)

Mapped == DOMAIN hdr \cup (IF strategy = "gpa" THEN {self} ELSE {})

(* frames mmap may return; none left: mmap fails and new_page_memory exits *)
new_page_memory == PageAddrs \ Mapped

PageOf(addr) == (addr \div PAGE) * PAGE

(* munmap: the header and the bytes of the page are gone *)
Unmap(h, page) == [p \in DOMAIN h \ {page} |-> h[p]]

----------------------------------------------------------------------------
(* Arena allocator: hdr[page] = [offset, next], the chain starts at self *)

create_arena_allocator(arena) ==
  /\ strategy = "arena"
  /\ status = "running"
  /\ self = arena
  /\ fba = NoFba
  /\ buckets = NoBuckets
  /\ hdr = [p \in {arena} |->
              [offset |-> arena + RoundUp8(SIZEOF_ARENA) * SIZEOF_ARENA,
               next |-> NULL]]

\* current->offset + size <= self + 4096, in bytes
arena_fits(current, size) == hdr[current].offset + size <= self + PAGE

RECURSIVE arena_find(_, _)
arena_find(current, size) ==
  IF current = NULL THEN NULL
  ELSE IF arena_fits(current, size) THEN current
  ELSE arena_find(hdr[current].next, size)

RECURSIVE arena_tail(_)
arena_tail(current) ==
  IF hdr[current].next = NULL THEN current ELSE arena_tail(hdr[current].next)

arena_alloc(size) ==
  /\ strategy = "arena" /\ status = "running" /\ nalloc < MaxAllocs
  /\ nalloc' = nalloc + 1
  /\ IF size <= 0 \/ size > PAGE
     THEN /\ status' = "fatal"
          /\ last' = Call("alloc", size, NoBlock, "fatal", FALSE, NoBlock, {})
          /\ UNCHANGED <<hdr, live, recent, older>>
     ELSE LET sz == RoundUp8(size)
              current == arena_find(self, sz)
          IN IF current # NULL
             THEN LET blk == [ptr |-> hdr[current].offset, size |-> sz,
                              page |-> current, gen |-> GenOf(current, FALSE)]
                  IN /\ hdr' = [hdr EXCEPT ![current].offset = @ + sz]
                     /\ live' = live \cup {blk}
                     /\ Carve(blk, FALSE)
                     /\ last' = Call("alloc", size, NoBlock, "ok", TRUE, blk, {})
                     /\ UNCHANGED status
             ELSE IF new_page_memory = {}
             THEN /\ status' = "fatal"
                  /\ last' = Call("alloc", size, NoBlock, "fatal", FALSE, NoBlock, {})
                  /\ UNCHANGED <<hdr, live, recent, older>>
             ELSE \E new_arena \in new_page_memory :
                    LET first == new_arena + RoundUp8(SIZEOF_ARENA)
                        blk == [ptr |-> first, size |-> sz, page |-> new_arena,
                                gen |-> GenOf(new_arena, TRUE)]
                        tail == arena_tail(self)
                    IN /\ hdr' = [p \in DOMAIN hdr \cup {new_arena} |->
                                    IF p = new_arena
                                    THEN [offset |-> first + sz, next |-> NULL]
                                    ELSE IF p = tail
                                    THEN [hdr[p] EXCEPT !.next = new_arena]
                                    ELSE hdr[p]]
                       /\ live' = live \cup {blk}
                       /\ Carve(blk, TRUE)
                       /\ last' = Call("alloc", size, NoBlock, "ok", TRUE, blk,
                                       {new_arena})
                       /\ UNCHANGED status
  /\ UNCHANGED <<strategy, self, fba, buckets, mem>>

\* the walk stopped after the first page: the pages behind the head stay mapped
arena_chain_head_only(arena) == IF arena = NULL THEN {} ELSE {arena}

\* the pages visited by the loop of arena_free: arena, arena->next, ...
RECURSIVE arena_chain(_)
arena_chain(arena) ==
  IF arena = NULL THEN {} ELSE {arena} \cup arena_chain(hdr[arena].next)

(* munmap of every page of the chain; the handle itself is gone afterwards *)
arena_free(memory) ==
  /\ strategy = "arena" /\ status = "running"
  /\ LET gone == arena_chain(self)
     IN /\ hdr' = [p \in DOMAIN hdr \ gone |-> hdr[p]]
        /\ last' = Call("free", 0, memory, "ok", FALSE, NoBlock, gone)
  /\ live' = {}
  /\ status' = "destroyed"
  /\ UNCHANGED <<strategy, self, fba, buckets, mem, nalloc, recent, older>>

arena_resize(memory, new_size) ==
  /\ strategy = "arena" /\ status = "running"
  /\ memory \in live
  /\ LET ns == RoundUp8(new_size)
         last_alloc == memory.ptr + memory.size = hdr[self].offset
         oom == memory.ptr + ns > self + PAGE
         resized == [memory EXCEPT !.size = ns]
     IN IF ~last_alloc \/ oom
        THEN /\ last' = Call("resize", new_size, memory, "ok", FALSE, memory, {})
             /\ UNCHANGED <<hdr, live>>
        ELSE /\ hdr' = [hdr EXCEPT ![self].offset = memory.ptr + ns]
             /\ live' = (live \ {memory}) \cup {resized}
             /\ last' = Call("resize", new_size, memory, "ok", TRUE, resized, {})
  /\ UNCHANGED <<strategy, status, self, fba, buckets, mem, nalloc, recent, older>>

----------------------------------------------------------------------------
(* General purpose allocator: hdr[page] = [offset, bucket_size, prev],      *)
(* buckets[i] is the newest page of bucket i                                 *)

RECURSIVE log2_loop(_, _, _)
log2_loop(x, value, result) ==
  IF value < x THEN log2_loop(x, value * 2, result + 1) ELSE result

\* the loop written "while (value <= x)": an exact power of two moves up a class
log2_ceil_inclusive(x) == IF x = 0 THEN 0 ELSE log2_loop(x + 1, 1, 0)

log2_ceil(x) == IF x = 0 THEN 0 ELSE log2_loop(x, 1, 0)

create_gpa_allocator(gpa) ==
  /\ strategy = "gpa"
  /\ status = "running"
  /\ self = gpa
  /\ fba = NoFba
  /\ buckets = [i \in 0..(NBUCKETS - 1) |-> NULL]
  /\ hdr = NoHdr

\* the room test taken against the start of the page: a head is always "full"
gpa_bucket_full_hasty(bucket, bucket_size) ==
  \/ bucket = NULL
  \/ hdr[bucket].offset + bucket_size > bucket

\* the room test forgets the header: one slot more is thought to fit
gpa_bucket_full_lax(bucket, bucket_size) ==
  \/ bucket = NULL
  \/ hdr[bucket].offset + bucket_size > bucket + PAGE + SIZEOF_GPABUCKET

\* bucket == NULL || bucket->offset + bucket_size > bucket + 4096
gpa_bucket_full(bucket, bucket_size) ==
  \/ bucket = NULL
  \/ hdr[bucket].offset + bucket_size > bucket + PAGE

gpa_alloc(size) ==
  /\ strategy = "gpa" /\ status = "running"
  /\ nalloc' = nalloc + 1
  /\ LET bucket_index == log2_ceil(size)
         bucket_size == 2 ^ bucket_index
         Fatal == /\ status' = "fatal"
                  /\ last' = Call("alloc", size, NoBlock, "fatal", FALSE, NoBlock, {})
                  /\ UNCHANGED <<hdr, buckets, mem, live, recent, older>>
     IN IF size <= 0 \/ size > PAGE THEN Fatal
        ELSE IF bucket_index >= NBUCKETS THEN Fatal
        ELSE LET bucket == buckets[bucket_index]
             IN IF gpa_bucket_full(bucket, bucket_size)
                THEN IF new_page_memory = {} THEN Fatal
                     ELSE \E new_bucket \in new_page_memory :
                            LET first == new_bucket + SIZEOF_GPABUCKET
                                blk == [ptr |-> first, size |-> bucket_size,
                                        page |-> new_bucket,
                                        gen |-> GenOf(new_bucket, TRUE)]
                            IN /\ hdr' = [p \in DOMAIN hdr \cup {new_bucket} |->
                                            IF p = new_bucket
                                            THEN [offset |-> first + bucket_size,
                                                  bucket_size |-> bucket_size,
                                                  prev |-> bucket]
                                            ELSE hdr[p]]
                               /\ buckets' = [buckets EXCEPT ![bucket_index] = new_bucket]
                               /\ mem' = Poison(mem, new_bucket, PAGE)
                               /\ live' = live \cup {blk}
                               /\ Carve(blk, TRUE)
                               /\ last' = Call("alloc", size, NoBlock, "ok", TRUE, blk,
                                               {new_bucket})
                               /\ UNCHANGED status
                ELSE LET blk == [ptr |-> hdr[bucket].offset, size |-> bucket_size,
                                 page |-> bucket, gen |-> GenOf(bucket, FALSE)]
                     IN /\ hdr' = [hdr EXCEPT ![bucket].offset = @ + bucket_size]
                        /\ live' = live \cup {blk}
                        /\ Carve(blk, FALSE)
                        /\ last' = Call("alloc", size, NoBlock, "ok", TRUE, blk, {})
                        /\ UNCHANGED <<status, buckets, mem>>
  /\ UNCHANGED <<strategy, self, fba>>

\* the scan started one byte late: the first byte behind the header is skipped
page_empty_late(bucket, m) ==
  \A a \in m : ~(bucket + SIZEOF_GPABUCKET < a /\ a < bucket + PAGE)

\* the scan of gpa_free: every byte from bucket + sizeof(GPABucket) to the
\* end of the page is 0xAA
page_empty(bucket, m) ==
  \A a \in m : ~(bucket + SIZEOF_GPABUCKET <= a /\ a < bucket + PAGE)

\* A store through a pointer into a page that is no longer mapped, or a load
\* through a NULL bucket, is a segmentation fault.
gpa_free(memory) ==
  /\ strategy = "gpa" /\ status = "running"
  /\ memory \in live
  /\ LET Crash == /\ status' = "crashed"
                  /\ last' = Call("free", 0, memory, "crash", FALSE, NoBlock, {})
                  /\ UNCHANGED <<hdr, buckets, mem, live>>
         m1 == Poison(mem, memory.ptr, memory.size)
         idx == log2_ceil(memory.size)
         bucket == buckets[idx]
     IN IF PageOf(memory.ptr) \notin Mapped THEN Crash
        ELSE IF bucket = NULL THEN Crash
        ELSE IF page_empty(bucket, m1)
        THEN /\ hdr' = Unmap(hdr, bucket)
             /\ buckets' = [buckets EXCEPT ![idx] = hdr[bucket].prev]
             /\ mem' = Poison(m1, bucket, PAGE)
             /\ live' = live \ {memory}
             /\ last' = Call("free", 0, memory, "ok", FALSE, NoBlock, {bucket})
             /\ UNCHANGED status
        ELSE /\ mem' = m1
             /\ live' = live \ {memory}
             /\ last' = Call("free", 0, memory, "ok", FALSE, NoBlock, {})
             /\ UNCHANGED <<status, hdr, buckets>>
  /\ UNCHANGED <<strategy, self, fba, nalloc, recent, older>>

\* the test taken one class too strict: a new size of the same class is refused
gpa_other_bucket_strict(new_bucket_idx, old_bucket_idx) ==
  new_bucket_idx >= old_bucket_idx

\* if (new_bucket_idx > old_bucket_idx) return false;
gpa_other_bucket(new_bucket_idx, old_bucket_idx) ==
  new_bucket_idx > old_bucket_idx

\* the whole block filled with 0xAA instead of its tail
gpa_shrink_whole(m, memory, new_size) ==
  Poison(m, memory.ptr, memory.size)

\* memset((char *)memory.ptr + new_size, 0xAA, memory.size - new_size)
gpa_shrink(m, memory, new_size) ==
  Poison(m, memory.ptr + new_size, memory.size - new_size)

gpa_resize(memory, new_size) ==
  /\ strategy = "gpa" /\ status = "running"
  /\ memory \in live
  /\ LET old_aligned_size == 2 ^ log2_ceil(memory.size)
         old_bucket_idx == log2_ceil(memory.size)
         old_bucket == buckets[old_bucket_idx]
         new_bucket_idx == log2_ceil(new_size)
     IN IF old_bucket = NULL
        THEN /\ status' = "crashed"
             /\ last' = Call("resize", new_size, memory, "crash", FALSE, memory, {})
             /\ UNCHANGED mem
        ELSE IF memory.ptr + old_aligned_size # hdr[old_bucket].offset
        THEN /\ last' = Call("resize", new_size, memory, "ok", FALSE, memory, {})
             /\ UNCHANGED <<status, mem>>
        ELSE IF gpa_other_bucket(new_bucket_idx, old_bucket_idx)
        THEN /\ last' = Call("resize", new_size, memory, "ok", FALSE, memory, {})
             /\ UNCHANGED <<status, mem>>
        ELSE /\ mem' = IF new_size < memory.size
                       THEN gpa_shrink(mem, memory, new_size)
                       ELSE mem
             /\ last' = Call("resize", new_size, memory, "ok", TRUE, memory, {})
             /\ UNCHANGED status
  /\ UNCHANGED <<strategy, self, fba, hdr, buckets, live, nalloc, recent, older>>

\* The caller fills a block it holds: it stores a byte other than 0xAA at the
\* block's first and at its last byte (as the memcpy calls of test_gpa do).
caller_write(memory) ==
  /\ strategy = "gpa" /\ status = "running"
  /\ memory \in live
  /\ IF PageOf(memory.ptr) \notin Mapped
     THEN /\ status' = "crashed"
          /\ last' = Call("write", 0, memory, "crash", FALSE, memory, {})
          /\ UNCHANGED mem
     ELSE /\ mem' = mem \cup {memory.ptr, memory.ptr + memory.size - 1}
          /\ last' = Call("write", 0, memory, "ok", FALSE, memory, {})
          /\ UNCHANGED status
  /\ UNCHANGED <<strategy, self, fba, hdr, buckets, live, nalloc, recent, older>>

----------------------------------------------------------------------------

Init ==
  /\ strategy \in {"fba", "arena", "gpa"}
  /\ status = "running"
  /\ mem = {}
  /\ live = {}
  /\ nalloc = 0
  /\ recent = NoHdr
  /\ older = {}
  /\ last = [op |-> "create", n |-> 0, arg |-> NoBlock, outcome |-> "ok",
             ret |-> FALSE, blk |-> NoBlock, pg |-> {}]
  /\ \/ \E buffer \in {PAGE} : create_fixed_buffer_allocator(buffer, BUF_SIZE)
     \/ \E arena \in PageAddrs : create_arena_allocator(arena)
     \/ \E gpa \in {PAGE} : create_gpa_allocator(gpa)

Next ==
  \/ \E size \in FbaSizes : fixed_buffer_alloc(size)
  \/ \E memory \in live : fixed_buffer_free(memory)
  \/ \E memory \in live, new_size \in FbaNewSizes : fixed_buffer_resize(memory, new_size)
  \/ \E size \in ArenaSizes : arena_alloc(size)
  \/ \E memory \in live \cup {NoBlock} : arena_free(memory)
  \/ \E memory \in live, new_size \in ArenaNewSizes : arena_resize(memory, new_size)
  \/ nalloc < MaxAllocs /\ \E size \in GpaSizes : gpa_alloc(size)
  \/ \E memory \in live : gpa_free(memory)
  \/ \E memory \in live, new_size \in GpaNewSizes : gpa_resize(memory, new_size)
  \/ \E memory \in live : caller_write(memory)

Spec == Init /\ [][Next]_vars

\* The first request to a new allocator, for every size up to MaxRequest
NextSizes ==
  \/ nalloc = 0 /\ \E size \in 0..MaxRequest : fixed_buffer_alloc(size)
  \/ nalloc = 0 /\ \E size \in 0..MaxRequest : arena_alloc(size)
  \/ nalloc = 0 /\ \E size \in 0..MaxRequest : gpa_alloc(size)

SpecSizes == Init /\ [][NextSizes]_vars

\* A bucket allocator that only serves requests, until its pages are used up
SlotSizes == {300, 1000, 2048}

NextSlots == nalloc < MaxFill /\ \E size \in SlotSizes : gpa_alloc(size)

SpecSlots == Init /\ [][NextSlots]_vars

----------------------------------------------------------------------------
(* Vocabulary of the properties, stated without the operators of the model *)

\* the least multiple of 8 that is >= n
Up8(n) == CHOOSE m \in n..(n + 7) : m % 8 = 0

\* the least k with 2^k >= n
CeilLog2(n) == CHOOSE k \in 0..13 : 2 ^ k >= n /\ (k = 0 \/ 2 ^ (k - 1) < n)

\* the byte ranges [ptr, ptr + size) of two blocks share no byte
Disjoint(a, b) == a.ptr + a.size <= b.ptr \/ b.ptr + b.size <= a.ptr

AllocReturned(call) == call.op = "alloc" /\ call.outcome = "ok" /\ call.n >= 1

----------------------------------------------------------------------------
(* C1: for each strategy, the block returned by allocate has a pointer      *)
(* different from every block returned earlier and not yet released, and    *)
(* its byte range is disjoint from the byte range of every such block.      *)
C1_FreshBlock ==
  [][AllocReturned(last') =>
       \A b \in live : b.ptr # last'.blk.ptr /\ Disjoint(b, last'.blk)]_vars

(* C2: a bucket release returns a page to the page provider only when all   *)
(* its slots are free: no page returned by a release contains a block that  *)
(* was allocated and not yet released.                                       *)
C2_NoLiveBlockInReturnedPage ==
  (strategy = "gpa" /\ last.op = "free") =>
     \A b \in live : b.page \notin last.pg

(* C3: for every strategy, resizeInPlace on a block that is not the most    *)
(* recent allocation of its page or region returns false and changes no     *)
(* cursor, chain or block byte.                                              *)
C3_ResizeOfOlderBlock ==
  [][(last'.op = "resize" /\ Key(last'.arg) \in older) =>
       /\ last'.outcome = "ok"
       /\ last'.ret = FALSE
       /\ UNCHANGED <<fba, hdr, buckets, mem>>]_vars

(* C4: fixed-buffer resizeInPlace(ptr, oldSize, newSize) returns true      *)
(* exactly when ptr + oldSize is the cursor and ptr + roundUp8(newSize) does *)
(* not exceed region_start + totalSize; on true the cursor becomes           *)
(* ptr + roundUp8(newSize), on false it is unchanged; allocate returns the   *)
(* cursor, so the next allocate returns exactly that address.                *)
C4_FixedBufferResize ==
  [][strategy = "fba" =>
       /\ last'.op = "resize" =>
            LET m == last'.arg
                ns == Up8(last'.n)
                ok == /\ m.ptr + m.size = fba.offset
                      /\ m.ptr + ns <= self + BUF_SIZE
            IN /\ last'.ret = ok
               /\ fba'.offset = IF ok THEN m.ptr + ns ELSE fba.offset
       /\ AllocReturned(last') => last'.blk.ptr = fba.offset]_vars

C4_Witness ==
  /\ strategy = "fba"
  /\ last.op = "resize" /\ last.ret = TRUE
  /\ last.arg.size > Up8(last.n)
  /\ older # {}
  /\ fba.offset = last.arg.ptr + Up8(last.n)

(* C5: arena resizeInPlace succeeds for a block of ANY page of the chain    *)
(* whenever ptr + oldSize is the cursor of the page the block lives in and   *)
(* ptr + roundUp8(newSize) does not exceed that page's end; that page's      *)
(* cursor becomes ptr + roundUp8(newSize), no other page's cursor changes.   *)
C5_ArenaResizeAnyPage ==
  [][(strategy = "arena" /\ last'.op = "resize") =>
       LET m == last'.arg
           p == m.page
           ns == Up8(last'.n)
       IN (m.ptr + m.size = hdr[p].offset /\ m.ptr + ns <= p + PAGE) =>
            /\ last'.ret = TRUE
            /\ hdr'[p].offset = m.ptr + ns
            /\ \A q \in DOMAIN hdr \ {p} : hdr'[q] = hdr[q]]_vars

(* C6: for every strategy, allocate(size) ends in the fatal outcome,        *)
(* returning no block and moving no cursor, when size is zero or exceeds the *)
(* capacity: the space left in the region (fixed buffer), 4096 minus the     *)
(* page header (arena), 2048 (bucket).                                       *)
C6_FatalOnBadSize ==
  [][(/\ last'.op = "alloc"
      /\ \/ last'.n = 0
         \/ strategy = "fba" /\ last'.n > self + BUF_SIZE - fba.offset
         \/ strategy = "arena" /\ last'.n > PAGE - Up8(SIZEOF_ARENA)
         \/ strategy = "gpa" /\ last'.n > 2 ^ (NBUCKETS - 1))
     => /\ last'.outcome = "fatal"
        /\ UNCHANGED <<fba, hdr, buckets, live>>]_vars

(* C7: every block returned by arena allocate lies inside the page it was   *)
(* carved from, page_start + header <= ptr and ptr + size <= page_start +    *)
(* 4096, and no page's cursor exceeds page_start + 4096.                     *)
C7_ArenaBlockInsidePage ==
  strategy = "arena" =>
    /\ \A b \in live : /\ b.page + Up8(SIZEOF_ARENA) <= b.ptr
                       /\ b.ptr + b.size <= b.page + PAGE
    /\ \A p \in DOMAIN hdr : hdr[p].offset <= p + PAGE

RECURSIVE ChainSeq(_, _)
ChainSeq(h, p) == IF p = NULL THEN << >> ELSE <<p>> \o ChainSeq(h, h[p].next)

(* C8: arena allocate is first-fit in creation order: the block is carved   *)
(* from the first page of the chain whose own remaining space (page end      *)
(* minus cursor) is at least roundUp8(size); only when no page has that room *)
(* exactly one page is acquired, appended at the tail and used.              *)
C8_ArenaFirstFit ==
  [][(strategy = "arena" /\ AllocReturned(last')) =>
       LET sz == Up8(last'.n)
           chain == ChainSeq(hdr, self)
           fits == {i \in 1..Len(chain) :
                      chain[i] + PAGE - hdr[chain[i]].offset >= sz}
       IN IF fits # {}
          THEN /\ last'.blk.page = chain[CHOOSE i \in fits : \A j \in fits : i <= j]
               /\ last'.pg = {}
               /\ DOMAIN hdr' = DOMAIN hdr
          ELSE /\ Cardinality(last'.pg) = 1
               /\ last'.blk.page \in last'.pg
               /\ ChainSeq(hdr', self) = Append(chain, last'.blk.page)]_vars

(* C9: for every valid request n, allocate(n).size >= n; fixed buffer and   *)
(* arena return the least multiple of 8 >= n; bucket (1 <= n <= 2048)        *)
(* returns the least power of two >= n, carved from the chain of class       *)
(* ceilLog2(n): 1 -> class 0, 1 byte; 20 -> class 5, 32 bytes; 300 -> class  *)
(* 9, 512 bytes.  Checked on the first request to a new allocator.           *)
ValidRequest(n) ==
  /\ n >= 1
  /\ strategy = "fba" => n <= BUF_SIZE - SIZEOF_FBA
  /\ strategy = "arena" => n <= PAGE - Up8(SIZEOF_ARENA)
  /\ strategy = "gpa" => n <= 2 ^ (NBUCKETS - 1)

C9_RoundedSize ==
  (last.op = "alloc" /\ ValidRequest(last.n)) =>
     /\ last.outcome = "ok"
     /\ last.blk \in live
     /\ last.blk.size >= last.n
     /\ strategy \in {"fba", "arena"} => last.blk.size = Up8(last.n)
     /\ strategy = "gpa" =>
          LET k == CeilLog2(last.n)
          IN /\ last.blk.size = 2 ^ k
             /\ buckets[k] = last.blk.page
             /\ hdr[last.blk.page].bucket_size = 2 ^ k
             /\ last.n = 1 => k = 0 /\ last.blk.size = 1
             /\ last.n = 20 => k = 5 /\ last.blk.size = 32
             /\ last.n = 300 => k = 9 /\ last.blk.size = 512

C9_Witness ==
  /\ strategy = "gpa"
  /\ last.op = "alloc" /\ last.n = 300
  /\ last.blk.size = 512
  /\ buckets[9] = last.blk.page

(* C10: bucket reclamation: a release after which every byte of the class   *)
(* head page behind its header holds the sentinel unlinks that page (the     *)
(* class head becomes its prevPage, possibly absent) and returns exactly     *)
(* that one page to the provider; a release after which the head page still  *)
(* holds a non-sentinel byte changes neither the class head nor the set of   *)
(* owned pages.                                                              *)
C10_BucketReclaim ==
  [][(strategy = "gpa" /\ last'.op = "free" /\ last'.outcome = "ok") =>
       LET m == last'.arg
           k == CeilLog2(m.size)
           head == buckets[k]
           dirty == {a \in mem : a < m.ptr \/ a >= m.ptr + m.size}
           clean == \A a \in dirty :
                       a < head + SIZEOF_GPABUCKET \/ a > head + PAGE - 1
       IN IF clean
          THEN /\ buckets' = [buckets EXCEPT ![k] = hdr[head].prev]
               /\ DOMAIN hdr' = DOMAIN hdr \ {head}
               /\ last'.pg = {head}
          ELSE /\ buckets' = buckets
               /\ DOMAIN hdr' = DOMAIN hdr
               /\ last'.pg = {}]_vars

C10_Witness ==
  /\ strategy = "gpa"
  /\ last.op = "free" /\ last.outcome = "ok"
  /\ last.pg # {}
  /\ buckets[CeilLog2(last.arg.size)] # NULL
  /\ buckets[CeilLog2(last.arg.size)] \in DOMAIN hdr

(* C11: arena release, whatever pointer and size it is given and however   *)
(* many pages the chain holds, returns every page of the chain, the head     *)
(* page included, to the page provider exactly once; afterwards the arena    *)
(* owns no page.                                                             *)
C11_ArenaReleaseAll ==
  [][(strategy = "arena" /\ last'.op = "free") =>
       LET chain == ChainSeq(hdr, self)
           pages == {chain[i] : i \in 1..Len(chain)}
       IN /\ self \in last'.pg
          /\ last'.pg = pages
          /\ Cardinality(pages) = Len(chain)
          /\ pages = DOMAIN hdr
          /\ DOMAIN hdr' = {}]_vars

C11_Witness ==
  /\ strategy = "arena"
  /\ last.op = "free"
  /\ last.arg # NoBlock
  /\ Cardinality(last.pg) >= 2
  /\ DOMAIN hdr = {}

(* C12: bucket resizeInPlace on the most recent block of its class's head   *)
(* page returns true when the new size maps to the same size class as the    *)
(* block, and returns false, changing no state, whenever the new size        *)
(* requires a larger size class; it never moves a block to another class.    *)
MostRecentOfHead(m) ==
  LET head == buckets[CeilLog2(m.size)]
  IN /\ head # NULL
     /\ m.page = head
     /\ Key(m) = recent[head]

C12_BucketResizeClass ==
  [][(strategy = "gpa" /\ last'.op = "resize" /\ MostRecentOfHead(last'.arg)) =>
       LET m == last'.arg
           k == CeilLog2(m.size)
           j == CeilLog2(last'.n)
       IN /\ last'.outcome = "ok"
          /\ j = k => last'.ret = TRUE
          /\ j > k => last'.ret = FALSE /\ UNCHANGED <<hdr, buckets, mem, live>>
          /\ m \in live' /\ live' = live
          /\ hdr'[m.page].bucket_size = 2 ^ k
          /\ buckets' = buckets]_vars

C12_Witness ==
  /\ strategy = "gpa"
  /\ last.op = "resize" /\ last.ret = TRUE
  /\ last.arg.size = 32 /\ last.n = 30
  /\ MostRecentOfHead(last.arg)

(* C13: bucket resizeInPlace is an invalid resize, returning false with no  *)
(* state mutation, whenever the size class of the new size differs from the  *)
(* size class of the block, whether the target class is larger or smaller    *)
(* than the source class.                                                    *)
C13_OtherClassRefused ==
  [][(/\ strategy = "gpa"
      /\ last'.op = "resize" /\ last'.outcome = "ok"
      /\ CeilLog2(last'.n) # CeilLog2(last'.arg.size))
     => /\ last'.ret = FALSE
        /\ UNCHANGED <<hdr, buckets, mem, live>>]_vars

(* C14: fixed-buffer cursor invariant: in every reachable state             *)
(* header_end <= cursor <= region_start + totalSize; allocate never          *)
(* decreases the cursor, release never changes it, and the only operation    *)
(* that decreases it is a successful resizeInPlace that shrinks the most     *)
(* recent allocation.                                                        *)
CursorInRegion ==
  /\ self + SIZEOF_FBA <= fba.offset
  /\ fba.offset <= self + BUF_SIZE

RECURSIVE BucketChain(_, _)
BucketChain(h, p) == IF p = NULL THEN << >> ELSE <<p>> \o BucketChain(h, h[p].prev)

Classes == 0..(NBUCKETS - 1)

\* the chain of class k: linked through prev, pages of size class 2^k, holding
\* every owned page of the class once, every page behind the head without room
ChainWellFormed(h, b, k) ==
  LET chain == BucketChain(h, b[k])
  IN /\ \A i \in 1..Len(chain) :
          /\ chain[i] \in DOMAIN h
          /\ h[chain[i]].bucket_size = 2 ^ k
          /\ \A j \in 1..Len(chain) : chain[i] = chain[j] => i = j
          /\ i >= 2 => h[chain[i]].offset + 2 ^ k > chain[i] + PAGE
     /\ {p \in DOMAIN h : h[p].bucket_size = 2 ^ k} =
          {chain[i] : i \in 1..Len(chain)}

(* C15: bucket chain invariant: after any sequence of allocate, release and *)
(* resizeInPlace, for every class k the head of chain k is the most recently *)
(* created page among the class's pages still owned (a page just created is *)
(* put in front of the chain, a reclamation takes the front page away, no    *)
(* other step changes a chain), every page of the chain is linked to the     *)
(* next older one through prevPage and has sizeClass 2^k, every non-head     *)
(* page has no room for one more 2^k slot, and no allocation lands in a page *)
(* older than the head, also after a reclamation made an older page the head *)
(* again.                                                                    *)
C15_BucketChain ==
  [][strategy = "gpa" =>
       /\ \A k \in Classes : ChainWellFormed(hdr', buckets', k)
       /\ \A k \in Classes :
            LET old == BucketChain(hdr, buckets[k])
                new == BucketChain(hdr', buckets'[k])
            IN IF AllocReturned(last') /\ last'.pg # {} /\ CeilLog2(last'.n) = k
               THEN new = <<last'.blk.page>> \o old /\ last'.pg = {last'.blk.page}
               ELSE IF last'.op = "free" /\ last'.pg # {}
                       /\ CeilLog2(last'.arg.size) = k
               THEN old # << >> /\ new = Tail(old) /\ last'.pg = {Head(old)}
               ELSE new = old
       /\ AllocReturned(last') =>
            last'.blk.page = buckets'[CeilLog2(last'.n)]]_vars

C15_Witness ==
  /\ strategy = "gpa"
  /\ nalloc = 3
  /\ last.op = "alloc" /\ last.n = 2048 /\ last.pg # {}
  /\ Cardinality(DOMAIN hdr) = 2
  /\ buckets[11] = last.blk.page
  /\ hdr[buckets[11]].prev # NULL
  /\ hdr[hdr[buckets[11]].prev].offset + 2048 > hdr[buckets[11]].prev + PAGE

\* the blocks the caller holds that were carved from page p
BlocksOf(p) == {b \in live : b.page = p}

(* C16: bucket allocate of class k acquires a new page exactly when the     *)
(* class head is absent or head.cursor + 2^k exceeds the head page's end;    *)
(* the new page's prevPage is the former head and it becomes the head;       *)
(* otherwise no page is acquired and only the head's cursor advances by 2^k. *)
(* Consequently a page serves exactly floor((4096 - header) / 2^k) slots     *)
(* before the next page is created (7 slots for the 512-byte class).         *)
(* Checked on allocators that only serve requests, so that the blocks held   *)
(* are the slots served.                                                     *)
C16_BucketNewPage ==
  [][(strategy = "gpa" /\ AllocReturned(last')) =>
       LET k == CeilLog2(last'.n)
           head == buckets[k]
           perPage == (PAGE - SIZEOF_GPABUCKET) \div (2 ^ k)
           needNew == \/ head = NULL
                      \/ hdr[head].offset + 2 ^ k > head + PAGE
       IN /\ IF needNew
             THEN /\ Cardinality(last'.pg) = 1
                  /\ \A p \in last'.pg :
                       /\ p \notin DOMAIN hdr
                       /\ DOMAIN hdr' = DOMAIN hdr \cup {p}
                       /\ hdr'[p].prev = head
                       /\ buckets' = [buckets EXCEPT ![k] = p]
                       /\ last'.blk.page = p
                  /\ \A q \in DOMAIN hdr : hdr'[q] = hdr[q]
                  /\ head # NULL => Cardinality(BlocksOf(head)) = perPage
             ELSE /\ last'.pg = {}
                  /\ hdr' = [hdr EXCEPT ![head].offset = @ + 2 ^ k]
                  /\ buckets' = buckets
                  /\ last'.blk.page = head
                  /\ Cardinality(BlocksOf(head)) < perPage
          /\ k = 9 => perPage = 7]_vars

C16_Witness ==
  /\ strategy = "gpa"
  /\ last.op = "alloc" /\ last.n = 300 /\ last.pg # {}
  /\ buckets[9] = last.blk.page
  /\ hdr[buckets[9]].prev # NULL
  /\ Cardinality(BlocksOf(hdr[buckets[9]].prev)) = 7
  /\ Cardinality(BlocksOf(buckets[9])) = 1

(* C17: bucket resizeInPlace, whether it returns true or false, leaves      *)
(* every class head, every page cursor and the set of owned pages unchanged; *)
(* a successful shrink only overwrites the vacated bytes                     *)
(* [ptr + newSize, ptr + oldSize) with the sentinel, so the block keeps its  *)
(* whole 2^class slot and the next allocation of that class is still at      *)
(* ptr + 2^class.                                                            *)
C17_BucketResizeFrame ==
  [][(strategy = "gpa" /\ last'.op = "resize" /\ last'.outcome = "ok") =>
       LET m == last'.arg
           n == last'.n
           k == CeilLog2(m.size)
       IN /\ buckets' = buckets
          /\ hdr' = hdr
          /\ live' = live
          /\ mem' = IF last'.ret /\ n < m.size
                    THEN {a \in mem : a < m.ptr + n \/ a >= m.ptr + m.size}
                    ELSE mem
          /\ last'.ret => /\ m \in live'
                          /\ m.size = 2 ^ k
                          /\ hdr'[buckets'[k]].offset = m.ptr + 2 ^ k]_vars

C17_Witness ==
  /\ strategy = "gpa"
  /\ last.op = "resize" /\ last.ret = TRUE
  /\ last.n = 30 /\ last.arg.size = 32
  /\ last.arg.ptr \in mem
  /\ last.arg.ptr + 31 \notin mem
  /\ hdr[last.arg.page].offset = last.arg.ptr + 32

(* C18: every arena page, the head page created by create_arena_allocator  *)
(* as well as each page appended later, starts bump allocation directly      *)
(* after its page header: the first block carved from a page is at           *)
(* page_start + roundUp8(header size), so a fresh arena can serve any        *)
(* request up to 4096 minus the header from its head page without acquiring  *)
(* a second page.                                                            *)
C18_ArenaFirstBlock ==
  [][(strategy = "arena" /\ last'.op = "alloc") =>
       /\ (AllocReturned(last') /\ last'.blk.page \notin DOMAIN recent) =>
            last'.blk.ptr = last'.blk.page + Up8(SIZEOF_ARENA)
       /\ (nalloc = 0 /\ 1 <= last'.n /\ last'.n <= PAGE - Up8(SIZEOF_ARENA)) =>
            /\ last'.outcome = "ok"
            /\ last'.blk.page = self
            /\ last'.pg = {}]_vars

====
